---- MODULE Spec2Model ----
(***************************************************************************)
(* Authorization proxy (PEP / PDP) of src/authz-proxy/app/main.py:         *)
(* token verification against the cached Keycloak public key, the          *)
(* path-based policy decision point, the policy enforcement point with its *)
(* TTL/LRU decision cache, and the HTTP handlers built on them.            *)
(*                                                                         *)
(* Python strings are sequences of one-character strings, so startswith,   *)
(* substring, strip, split and f-string formatting are computed as Python  *)
(* computes them.  Python's None is the value NoneVal.                     *)
(***************************************************************************)
EXTENDS Integers, Sequences, FiniteSets, TLC

VARIABLES
    policy_cache,       \* main.py:80   TTLCache, entries in least-recently-used order
    public_key_cache,   \* main.py:83   _public_key_cache
    now,                \* the monotonic clock TTLCache reads
    last,               \* the last operation: its inputs, the calls it made, the cache
                        \* entry enforce found under its key, its response
    tasks,              \* the request coroutines on the event loop: where each one
                        \* stands, and what it holds in its local variables
    keycloak            \* whether the identity provider answers ("up" or "down"),
                        \* where a specification follows it over time

vars == <<policy_cache, public_key_cache, now, last, tasks, keycloak>>

----------------------------------------------------------------------------
(* Bounds of the model *)

\* the clock runs from 0 to MaxTime
MaxTime == 3
\* POLICY_DECISION_CACHE_TTL (main.py:55, 300 s), scaled to clock ticks
CacheTtl == 2
\* TTLCache(maxsize=1000) (main.py:80), scaled
CacheMaxSize == 2

----------------------------------------------------------------------------
(* Python values *)

NoneVal == <<"<None>">>

IsStr(x) == x # NoneVal

\* truthiness of an Optional[str]: None and "" are falsy
Truthy(x) == x # NoneVal /\ x # <<>>

S_None == <<"N", "o", "n", "e">>
S_common == <<"/", "c", "o", "m", "m", "o", "n">>
S_common_rel == <<"c", "o", "m", "m", "o", "n", "/">>
S_user1 == <<"u", "s", "e", "r", "1">>
S_user2 == <<"u", "s", "e", "r", "2">>
S_commonuser == <<"c", "o", "m", "m", "o", "n", "u", "s", "e", "r">>
S_empty == <<>>

P_common == <<"/", "c", "o", "m", "m", "o", "n", "/", "d">>
P_common_rel == <<"c", "o", "m", "m", "o", "n", "/", "x">>
P_commonuser == <<"/", "c", "o", "m", "m", "o", "n", "u", "s", "e", "r", "/", "s">>
P_user1 == <<"/", "u", "s", "e", "r", "1", "/", "d">>
P_user2 == <<"/", "u", "s", "e", "r", "2", "/", "d">>
P_user2_user1 == <<"/", "u", "s", "e", "r", "2", "/", "u", "s", "e", "r", "1", "/", "x">>
P_user10 == <<"/", "u", "s", "e", "r", "1", "0", "/", "x">>
P_rel_user1 == <<"u", "s", "e", "r", "1", "/", "x">>
P_dslash_user1 == <<"/", "/", "u", "s", "e", "r", "1", "/", "x">>
P_data_common == <<"/", "d", "a", "t", "a", "/", "c", "o", "m", "m", "o", "n">>
P_None_None == <<"/", "N", "o", "n", "e", "/", "N", "o", "n", "e">>

A_read == <<"r", "e", "a", "d">>
A_write == <<"w", "r", "i", "t", "e">>
A_delete == <<"d", "e", "l", "e", "t", "e">>
A_list == <<"l", "i", "s", "t">>

\* a path and an action that contain the ":" of the cache key
P_common_colon == <<"/", "c", "o", "m", "m", "o", "n", "/", "d", ":", "r", "e", "a", "d">>
A_read_colon == <<"r", "e", "a", "d", ":", "r", "e", "a", "d">>

\* str.startswith
StartsWith(s, p) == Len(p) <= Len(s) /\ SubSeq(s, 1, Len(p)) = p

\* the substring test  sub in s
Contains(s, sub) ==
    \E i \in 1..(Len(s) - Len(sub) + 1) : SubSeq(s, i, i + Len(sub) - 1) = sub

RECURSIVE LStrip(_, _)
LStrip(s, ch) ==
    IF s # <<>> /\ Head(s) = ch THEN LStrip(Tail(s), ch) ELSE s

RECURSIVE RStrip(_, _)
RStrip(s, ch) ==
    IF s # <<>> /\ s[Len(s)] = ch THEN RStrip(SubSeq(s, 1, Len(s) - 1), ch) ELSE s

\* str.strip(ch)
Strip(s, ch) == RStrip(LStrip(s, ch), ch)

\* str.split(sep): the list of the segments between separators (never empty)
RECURSIVE SplitFrom(_, _, _)
SplitFrom(s, sep, cur) ==
    IF s = <<>> THEN <<cur>>
    ELSE IF Head(s) = sep THEN <<cur>> \o SplitFrom(Tail(s), sep, <<>>)
    ELSE SplitFrom(Tail(s), sep, Append(cur, Head(s)))

Split(s, sep) == SplitFrom(s, sep, <<>>)

\* f"{x}": a string is itself, None is formatted as "None"
Format(x) == IF x = NoneVal THEN S_None ELSE x

\* the outcome of a Python call: a returned value or a raised exception
Ret(v) == [raised |-> FALSE, value |-> v]
Raise(v) == [raised |-> TRUE, value |-> v]

----------------------------------------------------------------------------
(* Policy Decision Point, main.py:214-313 *)

\* x in user['roles']: a TypeError when roles is not a collection
RolesIsCollection(user) == user.rolesType = "list"

\* a classification by the owner segment: private when the first segment of
\* the path is the username
determine_resource_type_Exact(resource_path, username) ==
    IF StartsWith(resource_path, S_common) \/ StartsWith(resource_path, S_common_rel)
    THEN Ret("common")
    ELSE IF ~IsStr(username)
    THEN Raise("TypeError")
    ELSE IF Split(Strip(resource_path, "/"), "/")[1] = username
    THEN Ret("user_private")
    ELSE Ret("unknown")

\* PolicyDecisionPoint._determine_resource_type
determine_resource_type(resource_path, username) ==
    IF StartsWith(resource_path, S_common) \/ StartsWith(resource_path, S_common_rel)
    THEN Ret("common")
    ELSE IF ~IsStr(username)
    THEN Raise("TypeError")    \* None in resource_path
    ELSE IF Contains(resource_path, username)
            \/ StartsWith(resource_path, <<"/">> \o Format(username))
    THEN Ret("user_private")
    ELSE Ret("unknown")

\* a rule that lets every holder of a common role write and delete
evaluate_common_resource_ReaderWrites(user, action) ==
    IF action \in {A_read, A_write, A_delete}
    THEN Ret("common-reader" \in user.roles \/ "common-writer" \in user.roles)
    ELSE Ret(FALSE)

\* PolicyDecisionPoint._evaluate_common_resource
evaluate_common_resource(user, action) ==
    IF action = A_read
    THEN Ret("common-reader" \in user.roles \/ "common-writer" \in user.roles)
    ELSE IF action \in {A_write, A_delete}
    THEN Ret("common-writer" \in user.roles)
    ELSE Ret(FALSE)

\* a rule that takes the substring test of the classification for ownership
evaluate_user_resource_Substring(user, resource_path, action) ==
    Ret(Contains(resource_path, user.username))

\* PolicyDecisionPoint._evaluate_user_resource
evaluate_user_resource(user, resource_path, action) ==
    LET path_parts == Split(Strip(resource_path, "/"), "/")
        resource_owner == IF path_parts # <<>> THEN path_parts[1] ELSE NoneVal
    IN  Ret(user.username = resource_owner)

\* the body of the try block of PolicyDecisionPoint.evaluate
evaluate_try(user, resource_path, action) ==
    LET resource_type == determine_resource_type(resource_path, user.username)
    IN  IF resource_type.raised THEN Raise("TypeError")
        ELSE IF ~RolesIsCollection(user) THEN Raise("TypeError")
        ELSE IF "admin" \in user.roles THEN Ret(TRUE)
        ELSE IF resource_type.value = "common"
             THEN evaluate_common_resource(user, action)
        ELSE IF resource_type.value = "user_private"
             THEN evaluate_user_resource(user, resource_path, action)
        ELSE Ret(FALSE)

\* a PDP whose evaluate has no except clause
evaluate_NoExcept(user, resource_path, action) ==
    LET r == evaluate_try(user, resource_path, action)
    IN  IF r.raised THEN [raised |-> TRUE, value |-> FALSE] ELSE r

\* a PDP that lets one token subject through whatever its roles are
evaluate_SubjectTrusted(user, resource_path, action) ==
    LET r == evaluate_try(user, resource_path, action)
    IN  IF user.sub = "sub-0" THEN Ret(TRUE)
        ELSE IF r.raised THEN Ret(FALSE) ELSE r

\* PolicyDecisionPoint.evaluate: except Exception -> return False
evaluate(user, resource_path, action) ==
    LET r == evaluate_try(user, resource_path, action)
    IN  IF r.raised THEN Ret(FALSE) ELSE r

----------------------------------------------------------------------------
(* Token verifier, main.py:83-161 *)

PEM_BEGIN == "-----BEGIN PUBLIC KEY-----"
PEM_END == "-----END PUBLIC KEY-----"

\* a key is a sequence of lines; the bare key is one line, the PEM form three
Pem(k) == <<PEM_BEGIN, k, PEM_END>>

\* the key material python-jose reads out of a PEM key
KeyMaterial(pem) == pem[2]

\* keycloak_openid.public_key(): the realm's answer, or no answer at all
KeycloakReplies ==
    { [reachable |-> FALSE, key |-> <<>>],
      [reachable |-> TRUE,  key |-> <<>>],
      [reachable |-> TRUE,  key |-> <<"K1">>],
      [reachable |-> TRUE,  key |-> Pem("K1")],
      [reachable |-> TRUE,  key |-> <<"K2">>] }

\* a fetch that does not look at the cached key first
get_keycloak_public_key_Refetch(cache, reply) ==
    IF ~reply.reachable \/ reply.key = <<>>
    THEN [raised |-> TRUE, value |-> <<>>, cache |-> cache, fetched |-> TRUE]
    ELSE LET public_key == IF Head(reply.key) # PEM_BEGIN
                           THEN Pem(reply.key[1]) ELSE reply.key
         IN  [raised |-> FALSE, value |-> public_key, cache |-> public_key, fetched |-> TRUE]

\* a fetch that remembers its failure in place of the key
get_keycloak_public_key_RememberFailure(cache, reply) ==
    IF Truthy(cache)
    THEN [raised |-> cache = <<"unavailable">>, value |-> cache, cache |-> cache,
          fetched |-> FALSE]
    ELSE IF ~reply.reachable \/ reply.key = <<>>
    THEN [raised |-> TRUE, value |-> <<>>, cache |-> <<"unavailable">>, fetched |-> TRUE]
    ELSE LET public_key == IF Head(reply.key) # PEM_BEGIN
                           THEN Pem(reply.key[1]) ELSE reply.key
         IN  [raised |-> FALSE, value |-> public_key, cache |-> public_key, fetched |-> TRUE]

\* get_keycloak_public_key: the key and the new value of _public_key_cache
get_keycloak_public_key(cache, reply) ==
    IF Truthy(cache)
    THEN [raised |-> FALSE, value |-> cache, cache |-> cache, fetched |-> FALSE]
    ELSE IF ~reply.reachable
    THEN [raised |-> TRUE, value |-> <<>>, cache |-> cache, fetched |-> TRUE]
    ELSE IF reply.key = <<>>
    THEN [raised |-> TRUE, value |-> <<>>, cache |-> cache, fetched |-> TRUE]
    ELSE LET public_key == IF Head(reply.key) # PEM_BEGIN
                           THEN Pem(reply.key[1]) ELSE reply.key
         IN  [raised |-> FALSE, value |-> public_key, cache |-> public_key, fetched |-> TRUE]

\* authorization.replace("Bearer ", ""): the text handed to jwt.decode.
\* A header is a scheme followed by a token; any scheme other than "Bearer "
\* stays in front of the token and the text is then no JWT.
BearerReplace(authorization) ==
    [jwt |-> authorization.scheme \in {"Bearer ", ""} /\ authorization.token.wellformed,
     token |-> authorization.token]

\* a decoder that does not look at the exp claim
jwt_decode_NoExpiry(text, public_key) ==
    IF ~text.jwt THEN Raise("JWTError")
    ELSE IF Len(public_key) # 3 \/ text.token.signedBy # KeyMaterial(public_key)
    THEN Raise("JWTError")
    ELSE Ret("claims")

\* jwt.decode(token, public_key, algorithms=["RS256"], options={"verify_aud": False})
\* the signature is verified first, then the exp claim
jwt_decode(text, public_key) ==
    IF ~text.jwt THEN Raise("JWTError")
    ELSE IF Len(public_key) # 3 \/ text.token.signedBy # KeyMaterial(public_key)
    THEN Raise("JWTError")
    ELSE IF text.token.expired THEN Raise("ExpiredSignatureError")
    ELSE Ret("claims")

NoUser == [username |-> NoneVal, roles |-> {}, rolesType |-> "list", sub |-> "-"]

\* a claims extraction that leaves roles at None when the token names none
UserOf_NoDefault(token) ==
    [username  |-> token.preferred_username,
     roles     |-> IF token.realm_access = "list" THEN token.roles ELSE {},
     rolesType |-> IF token.realm_access = "list" THEN "list" ELSE "null",
     sub       |-> token.sub]

\* the dict get_current_user returns, main.py:138-156.  realm_access of a token
\* is "list" (realm_access.roles is a list), "null" (realm_access.roles is
\* null), "noroles" (realm_access has no roles) or "absent" (no realm_access).
UserOf(token) ==
    [username  |-> token.preferred_username,
     roles     |-> IF token.realm_access = "list" THEN token.roles ELSE {},
     rolesType |-> IF token.realm_access = "null" THEN "null" ELSE "list",
     sub       |-> token.sub]

\* a verifier that, when the key cannot be fetched, reads the claims unverified
get_current_user_FailOpen(authorization, cache, reply) ==
    IF ~authorization.present
    THEN [status |-> 401, user |-> NoUser, cache |-> cache, fetched |-> FALSE]
    ELSE LET k == get_keycloak_public_key(cache, reply)
             d == jwt_decode(BearerReplace(authorization), k.value)
         IN  IF k.raised
             THEN [status |-> 200, user |-> UserOf(authorization.token),
                   cache |-> k.cache, fetched |-> k.fetched]
             ELSE IF d.raised
             THEN [status |-> 401, user |-> NoUser, cache |-> k.cache, fetched |-> k.fetched]
             ELSE [status |-> 200, user |-> UserOf(authorization.token),
                   cache |-> k.cache, fetched |-> k.fetched]

\* get_current_user: 401 or the user, and the new value of _public_key_cache
get_current_user(authorization, cache, reply) ==
    IF ~authorization.present
    THEN [status |-> 401, user |-> NoUser, cache |-> cache, fetched |-> FALSE]
    ELSE LET k == get_keycloak_public_key(cache, reply)
             d == jwt_decode(BearerReplace(authorization), k.value)
         IN  IF k.raised
             THEN [status |-> 401, user |-> NoUser, cache |-> k.cache, fetched |-> k.fetched]
             ELSE IF d.raised
             THEN [status |-> 401, user |-> NoUser, cache |-> k.cache, fetched |-> k.fetched]
             ELSE [status |-> 200, user |-> UserOf(authorization.token),
                   cache |-> k.cache, fetched |-> k.fetched]

----------------------------------------------------------------------------
(* Decision cache: cachetools.TTLCache(maxsize, ttl), main.py:80.           *)
(* policy_cache is the sequence of its entries in the order of the cache's *)
(* link list (least recently used first).  Each entry carries, besides key, *)
(* value and expires, history fields the program does not have: by, the     *)
(* user whose call inserted it, req, the (resource_path, action) of that   *)
(* call, and at, the time of the insertion.                                *)

RECURSIVE IndexOf(_, _, _)
IndexOf(cache, key, i) ==
    IF i > Len(cache) THEN 0
    ELSE IF cache[i].key = key THEN i
    ELSE IndexOf(cache, key, i + 1)

\* the entries whose key is key: none or one
Lookup(cache, key) == SelectSeq(cache, LAMBDA e : e.key = key)

Without(cache, key) == SelectSeq(cache, LAMBDA e : e.key # key)

\* an entry counts as expired from expires on, not only after it
Expired_OffByOne(e, t) == ~(t <= e.expires)

\* TTLCache: an entry is expired when not (timer() < link.expires)
Expired(e, t) == ~(t < e.expires)

\* TTLCache.expire(time): drop every expired entry
Expire(cache, t) == SelectSeq(cache, LAMBDA e : ~Expired(e, t))

\* TTLCache.__contains__: no reordering, no purge
CacheContains(cache, key, t) ==
    \E i \in 1..Len(cache) : cache[i].key = key /\ ~Expired(cache[i], t)

\* a read that leaves the entry where it is in the order of use
CacheGetItem_NoMove(cache, key, t) ==
    LET i == IndexOf(cache, key, 1)
    IN  IF i = 0 \/ Expired(cache[i], t)
        THEN [raised |-> TRUE, value |-> FALSE, cache |-> cache]
        ELSE [raised |-> FALSE, value |-> cache[i].value, cache |-> cache]

\* TTLCache.__getitem__: the link moves to the end, then KeyError if expired
CacheGetItem(cache, key, t) ==
    LET i == IndexOf(cache, key, 1)
    IN  IF i = 0 THEN [raised |-> TRUE, value |-> FALSE, cache |-> cache]
        ELSE LET moved == Append(Without(cache, key), cache[i])
             IN  IF Expired(cache[i], t)
                 THEN [raised |-> TRUE, value |-> FALSE, cache |-> moved]
                 ELSE [raised |-> FALSE, value |-> cache[i].value, cache |-> moved]

\* Cache.__setitem__'s  while currsize + size > maxsize: popitem()
RECURSIVE MakeRoom(_)
MakeRoom(cache) ==
    IF Len(cache) + 1 > CacheMaxSize THEN MakeRoom(Tail(cache)) ELSE cache

\* TTLCache.__setitem__ at time t
CacheSetItem(cache, key, value, t, by, req) ==
    LET live == Expire(cache, t)
        room == IF IndexOf(live, key, 1) = 0 THEN MakeRoom(live) ELSE Without(live, key)
    IN  Append(room, [key |-> key, value |-> value, expires |-> t + CacheTtl,
                      by |-> by, req |-> req, at |-> t])

\* len(policy_cache): expired entries are purged, then counted
CacheLen(cache, t) == Len(Expire(cache, t))

----------------------------------------------------------------------------
(* Policy Enforcement Point, main.py:164-211 *)

\* a key that leaves the action out
cache_key_NoAction(user, resource_path, action) ==
    Format(user.username) \o <<":">> \o Format(resource_path)

\* cache_key = f"{user['username']}:{resource_path}:{action}"
cache_key(user, resource_path, action) ==
    Format(user.username) \o <<":">> \o Format(resource_path) \o <<":">> \o Format(action)

\* a PEP that never consults the cache
enforce_NoCache(user, resource_path, action, cache, t1, t2) ==
    LET d == evaluate(user, resource_path, action)
    IN  [raised |-> FALSE, value |-> d.value, hit |-> FALSE, evaluated |-> TRUE,
         cache |-> CacheSetItem(cache, cache_key(user, resource_path, action), d.value, t2,
                                user, <<resource_path, action>>)]

\* a PEP that serves a cached decision only to the roles it was computed for
enforce_RolesChecked(user, resource_path, action, cache, t1, t2) ==
    LET key == cache_key(user, resource_path, action)
        same == \E i \in 1..Len(cache) : cache[i].key = key /\ cache[i].by.roles = user.roles
    IN  IF CacheContains(cache, key, t1) /\ same
        THEN LET g == CacheGetItem(cache, key, t2)
             IN  [raised |-> g.raised, value |-> g.value, hit |-> TRUE,
                  evaluated |-> FALSE, cache |-> g.cache]
        ELSE LET d == evaluate(user, resource_path, action)
             IN  [raised |-> d.raised, value |-> d.value, hit |-> FALSE,
                  evaluated |-> TRUE,
                  cache |-> CacheSetItem(cache, key, d.value, t2, user,
                                         <<resource_path, action>>)]

\* PolicyEnforcementPoint.enforce.  The clock is read at t1 by the membership
\* test and at t2 >= t1 by the read of the entry or by the insertion.
enforce(user, resource_path, action, cache, t1, t2) ==
    LET key == cache_key(user, resource_path, action)
    IN  IF CacheContains(cache, key, t1)
        THEN LET g == CacheGetItem(cache, key, t2)
             IN  [raised |-> g.raised, value |-> g.value, hit |-> TRUE,
                  evaluated |-> FALSE, cache |-> g.cache]
        ELSE LET d == evaluate(user, resource_path, action)
             IN  [raised |-> d.raised, value |-> d.value, hit |-> FALSE,
                  evaluated |-> TRUE,
                  cache |-> IF d.raised THEN cache
                            ELSE CacheSetItem(cache, key, d.value, t2, user,
                                              <<resource_path, action>>)]

\* enforce up to its await (main.py:197-206): the key, the membership test
\* and, on a hit, the read of the entry; on a miss the coroutine stands at
\* `await pdp.evaluate(...)`, the one place where the event loop may run
\* another coroutine before this one goes on
enforce_begin(user, resource_path, action, cache, t1, t2) ==
    LET key == cache_key(user, resource_path, action)
    IN  IF CacheContains(cache, key, t1)
        THEN LET g == CacheGetItem(cache, key, t2)
             IN  [suspended |-> FALSE, raised |-> g.raised, value |-> g.value,
                  hit |-> TRUE, cache |-> g.cache]
        ELSE [suspended |-> TRUE, raised |-> FALSE, value |-> FALSE,
              hit |-> FALSE, cache |-> cache]

\* an insertion that adds a link without looking for the key
enforce_resume_Append(user, resource_path, action, cache, t) ==
    LET d == evaluate(user, resource_path, action)
    IN  [raised |-> d.raised, value |-> d.value,
         cache |-> Append(Expire(cache, t),
                          [key |-> cache_key(user, resource_path, action),
                           value |-> d.value, expires |-> t + CacheTtl,
                           by |-> user, req |-> <<resource_path, action>>, at |-> t])]

\* an insertion that writes back a cache holding the new entry alone
enforce_resume_Overwrite(user, resource_path, action, cache, t) ==
    LET d == evaluate(user, resource_path, action)
    IN  [raised |-> d.raised, value |-> d.value,
         cache |-> CacheSetItem(<<>>, cache_key(user, resource_path, action), d.value, t,
                                user, <<resource_path, action>>)]

\* enforce from its await on (main.py:206-211): the decision of evaluate and
\* the insertion into the cache as it is when the coroutine goes on
enforce_resume(user, resource_path, action, cache, t) ==
    LET d == evaluate(user, resource_path, action)
    IN  [raised |-> d.raised, value |-> d.value,
         cache |-> IF d.raised THEN cache
                   ELSE CacheSetItem(cache, cache_key(user, resource_path, action),
                                     d.value, t, user, <<resource_path, action>>)]

----------------------------------------------------------------------------
(* HTTP handlers, main.py:354-460 *)

\* the part of a response that comes from the call of enforce
NoEnforce == [called |-> FALSE, raised |-> FALSE, value |-> FALSE, hit |-> FALSE,
              evaluated |-> FALSE]

EnforceOutcome(e) == [called |-> TRUE, raised |-> e.raised, value |-> e.value,
                      hit |-> e.hit, evaluated |-> e.evaluated]

EnforceTrace(e) ==
    <<"enforce">> \o (IF e.evaluated THEN <<"evaluate">> ELSE <<>>)

\* a body read without the default: a missing action stays None
ActionOf_NoDefault(body) == body.action

\* body.get("action", "read")
ActionOf(body) == IF body.has_action THEN body.action ELSE A_read

\* a handler that answers a fault inside enforce like a deny
authorize_FaultDenies(user, body, cache, t1, t2) ==
    IF ~body.json_ok
    THEN [status |-> 500, cache |-> cache, trace |-> <<>>, enforce |-> NoEnforce,
          resource_path |-> NoneVal, action |-> NoneVal]
    ELSE LET resource_path == body.resource_path
             action == ActionOf(body)
         IN  IF ~Truthy(resource_path)
             THEN [status |-> 400, cache |-> cache, trace |-> <<>>, enforce |-> NoEnforce,
                   resource_path |-> resource_path, action |-> action]
             ELSE LET e == enforce(user, resource_path, action, cache, t1, t2)
                  IN  [status |-> IF ~e.raised /\ e.value THEN 200 ELSE 403,
                       cache |-> e.cache, trace |-> EnforceTrace(e),
                       enforce |-> EnforceOutcome(e),
                       resource_path |-> resource_path, action |-> action]

\* authorize, after the dependency get_current_user has returned user
authorize(user, body, cache, t1, t2) ==
    IF ~body.json_ok
    THEN [status |-> 500, cache |-> cache, trace |-> <<>>, enforce |-> NoEnforce,
          resource_path |-> NoneVal, action |-> NoneVal]
    ELSE LET resource_path == body.resource_path
             action == ActionOf(body)
         IN  IF ~Truthy(resource_path)
             THEN [status |-> 400, cache |-> cache, trace |-> <<>>, enforce |-> NoEnforce,
                   resource_path |-> resource_path, action |-> action]
             ELSE LET e == enforce(user, resource_path, action, cache, t1, t2)
                  IN  [status |-> IF e.raised THEN 500 ELSE IF e.value THEN 200 ELSE 403,
                       cache |-> e.cache, trace |-> EnforceTrace(e),
                       enforce |-> EnforceOutcome(e),
                       resource_path |-> resource_path, action |-> action]

\* a handler that builds the client and signs the URL before it asks the PEP
get_presigned_url_MintFirst(user, body, minio_ok, cache, t1, t2) ==
    LET bucket == body.bucket
        object_path == body.object_path
        action == ActionOf(body)
        resource_path == <<"/">> \o Format(bucket) \o <<"/">> \o Format(object_path)
        e == enforce(user, resource_path, action, cache, t1, t2)
    IN  [status |-> IF e.raised THEN 500 ELSE IF e.value THEN 200 ELSE 403,
         cache |-> e.cache,
         trace |-> <<"minio_client", "presigned_get_object">> \o EnforceTrace(e),
         enforce |-> EnforceOutcome(e),
         resource_path |-> resource_path, action |-> action]

\* a handler that signs a PUT URL for every action other than read
get_presigned_url_AnyAction(user, body, minio_ok, cache, t1, t2) ==
    LET bucket == body.bucket
        object_path == body.object_path
        action == ActionOf(body)
        resource_path == <<"/">> \o Format(bucket) \o <<"/">> \o Format(object_path)
        e == enforce(user, resource_path, action, cache, t1, t2)
        minted == IF action = A_read THEN <<"minio_client", "presigned_get_object">>
                  ELSE <<"minio_client", "presigned_put_object">>
    IN  [status |-> IF ~body.json_ok \/ e.raised THEN 500
                    ELSE IF ~e.value THEN 403
                    ELSE IF ~minio_ok THEN 500
                    ELSE 200,
         cache |-> IF body.json_ok THEN e.cache ELSE cache,
         trace |-> IF ~body.json_ok THEN <<>>
                   ELSE EnforceTrace(e)
                        \o (IF ~e.raised /\ e.value THEN minted ELSE <<>>)
                        \o (IF ~e.raised /\ e.value /\ ~minio_ok
                            THEN <<"storage_fault">> ELSE <<>>),
         enforce |-> IF body.json_ok THEN EnforceOutcome(e) ELSE NoEnforce,
         resource_path |-> resource_path, action |-> action]

\* get_presigned_url, after the dependency get_current_user has returned user.
\* minio_ok: whether the MinIO client signs the URL without a fault.
get_presigned_url(user, body, minio_ok, cache, t1, t2) ==
    IF ~body.json_ok
    THEN [status |-> 500, cache |-> cache, trace |-> <<>>, enforce |-> NoEnforce,
          resource_path |-> NoneVal, action |-> NoneVal]
    ELSE LET bucket == body.bucket
             object_path == body.object_path
             action == ActionOf(body)
             resource_path == <<"/">> \o Format(bucket) \o <<"/">> \o Format(object_path)
             e == enforce(user, resource_path, action, cache, t1, t2)
             signed == minio_ok /\ IsStr(bucket) /\ IsStr(object_path)
             minted == IF action = A_read THEN <<"minio_client", "presigned_get_object">>
                       ELSE IF action = A_write THEN <<"minio_client", "presigned_put_object">>
                       ELSE <<"minio_client">>
         IN  [status |-> IF e.raised THEN 500
                         ELSE IF ~e.value THEN 403
                         ELSE IF action \notin {A_read, A_write} THEN 400
                         ELSE IF ~signed THEN 500
                         ELSE 200,
              cache |-> e.cache,
              trace |-> EnforceTrace(e)
                        \o (IF ~e.raised /\ e.value THEN minted ELSE <<>>)
                        \o (IF ~e.raised /\ e.value /\ action \in {A_read, A_write}
                               /\ ~signed
                            THEN <<"storage_fault">> ELSE <<>>),
              enforce |-> EnforceOutcome(e),
              resource_path |-> resource_path, action |-> action]

----------------------------------------------------------------------------
(* Requests *)

Token(username, ra, roles, sub) ==
    [wellformed |-> TRUE, signedBy |-> "K1", expired |-> FALSE,
     preferred_username |-> username, realm_access |-> ra, roles |-> roles, sub |-> sub]

T_user1_writer == Token(S_user1, "list", {"common-writer"}, "sub-1")
T_user1_reader == Token(S_user1, "list", {"common-reader"}, "sub-1")
T_user1_admin == Token(S_user1, "list", {"admin"}, "sub-1")
T_user2_reader == Token(S_user2, "list", {"common-reader"}, "sub-2")
T_anon_admin == Token(NoneVal, "list", {"admin"}, "sub-3")
T_user1_noaccess == Token(S_user1, "absent", {}, "sub-1")
T_user1_noroles == Token(S_user1, "noroles", {}, "sub-1")
T_expired == [T_user1_admin EXCEPT !.expired = TRUE]
T_forged == [T_user1_admin EXCEPT !.signedBy = "forged"]
T_garbage == [T_user1_admin EXCEPT !.wellformed = FALSE]

Bearer(token) == [present |-> TRUE, scheme |-> "Bearer ", token |-> token]

NoHeader == [present |-> FALSE, scheme |-> "", token |-> T_garbage]

\* the validly signed, unexpired tokens sent as "Bearer <token>": one username
\* with the admin role, without a realm_access claim, and without roles in it
ValidTokens == {T_user1_admin, T_user1_noaccess, T_user1_noroles}

Headers ==
    {NoHeader}
    \cup {Bearer(t) : t \in ValidTokens \cup {T_expired, T_forged, T_garbage}}
    \cup {[present |-> TRUE, scheme |-> "Basic ", token |-> T_user1_admin],
          [present |-> TRUE, scheme |-> "", token |-> T_user1_admin]}

NoBody == [json_ok |-> FALSE, resource_path |-> NoneVal, has_action |-> FALSE,
           action |-> NoneVal, bucket |-> NoneVal, object_path |-> NoneVal]

AuthorizeBody(path, has_action, action) ==
    [NoBody EXCEPT !.json_ok = TRUE, !.resource_path = path,
                   !.has_action = has_action, !.action = action]

PresignBody(bucket, object_path, has_action, action) ==
    [NoBody EXCEPT !.json_ok = TRUE, !.bucket = bucket, !.object_path = object_path,
                   !.has_action = has_action, !.action = action]

AuthorizeBodies ==
    {NoBody, AuthorizeBody(NoneVal, FALSE, NoneVal), AuthorizeBody(S_empty, TRUE, A_write),
     AuthorizeBody(P_common, TRUE, A_write), AuthorizeBody(P_user2, FALSE, NoneVal)}

PresignBodies ==
    {NoBody,
     PresignBody(<<"c", "o", "m", "m", "o", "n">>, <<"d">>, TRUE, A_write),
     PresignBody(S_user2, <<"d">>, FALSE, NoneVal)}

\* the unexpired entries a call removed from the cache: those popitem() threw
\* out to make room
Evicted(before, after, t) ==
    SelectSeq(Expire(before, t), LAMBDA e : \A i \in DOMAIN after : after[i].key # e.key)

\* get_cache_stats, main.py:738-748.  len(policy_cache) is evaluated twice, and
\* each evaluation reads the clock and purges what has expired by then: at t1
\* for current_entries, at t2 >= t1 for available_space.
get_cache_stats(cache, t1, t2) ==
    [max_size |-> CacheMaxSize,
     ttl_seconds |-> CacheTtl,
     current_entries |-> CacheLen(cache, t1),
     available_space |-> CacheMaxSize - CacheLen(Expire(cache, t1), t2),
     cache |-> Expire(Expire(cache, t1), t2)]

\* a clear that does not look at the roles
clear_cache_NoAdminCheck(user, cache, t) ==
    [status |-> 200, cleared_entries |-> CacheLen(cache, t),
     current_entries |-> CacheLen(<<>>, t), cache |-> <<>>]

\* clear_cache, after the dependency get_current_user has returned user:
\* len(policy_cache), policy_cache.clear(), len(policy_cache)
clear_cache(user, cache, t) ==
    IF ~RolesIsCollection(user)
    THEN [status |-> 500, cleared_entries |-> 0, current_entries |-> 0, cache |-> cache]
    ELSE IF "admin" \notin user.roles
    THEN [status |-> 403, cleared_entries |-> 0, current_entries |-> 0, cache |-> cache]
    ELSE [status |-> 200, cleared_entries |-> CacheLen(cache, t),
          current_entries |-> CacheLen(<<>>, t), cache |-> <<>>]

\* a simulation that asks the PEP, and with it the decision cache
simulate_authorization_ViaEnforce(user, body, cache, t) ==
    LET resource_path == body.resource_path
        action == ActionOf(body)
        e == enforce(user, resource_path, action, cache, t, t)
    IN  IF ~body.json_ok \/ ~Truthy(resource_path)
        THEN [status |-> IF body.json_ok THEN 400 ELSE 500, cache |-> cache,
              trace |-> <<>>, decision |-> Ret(FALSE),
              resource_path |-> resource_path, action |-> action]
        ELSE [status |-> IF e.raised THEN 500 ELSE 200, cache |-> e.cache,
              trace |-> EnforceTrace(e), decision |-> Ret(e.value),
              resource_path |-> resource_path, action |-> action]

\* simulate_authorization, after the dependency get_current_user has returned
\* user.  The module's policy_cache is passed through: the handler has no
\* statement that names it.
simulate_authorization(user, body, cache, t) ==
    IF ~body.json_ok
    THEN [status |-> 500, cache |-> cache, trace |-> <<>>, decision |-> Ret(FALSE),
          resource_path |-> NoneVal, action |-> NoneVal]
    ELSE LET resource_path == body.resource_path
             action == ActionOf(body)
             resource_type == determine_resource_type(resource_path, user.username)
             granted == evaluate(user, resource_path, action)
         IN  IF ~Truthy(resource_path)
             THEN [status |-> 400, cache |-> cache, trace |-> <<>>,
                   decision |-> Ret(FALSE),
                   resource_path |-> resource_path, action |-> action]
             ELSE IF resource_type.raised
             THEN [status |-> 500, cache |-> cache,
                   trace |-> <<"determine_resource_type">>, decision |-> Ret(FALSE),
                   resource_path |-> resource_path, action |-> action]
             \* "admin" in user['roles'], user['username'] in resource_path
             ELSE IF ~RolesIsCollection(user) \/ ~IsStr(user.username)
             THEN [status |-> 500, cache |-> cache,
                   trace |-> <<"determine_resource_type", "evaluate">>,
                   decision |-> Ret(FALSE),
                   resource_path |-> resource_path, action |-> action]
             ELSE [status |-> 200, cache |-> cache,
                   trace |-> <<"determine_resource_type", "evaluate">>,
                   decision |-> granted,
                   resource_path |-> resource_path, action |-> action]

\* one entry of the results of batch_test_authorization
batch_result(user, test) ==
    LET resource_path == test.resource_path
        action == ActionOf(test)
    IN  IF ~Truthy(resource_path)
        THEN [resource_path |-> NoneVal, action |-> action, decision |-> "ERROR",
              evaluated |-> FALSE]
        ELSE IF determine_resource_type(resource_path, user.username).raised
        THEN [resource_path |-> resource_path, action |-> action, decision |-> "ERROR",
              evaluated |-> TRUE]
        ELSE [resource_path |-> resource_path, action |-> action,
              decision |-> IF evaluate(user, resource_path, action).value
                           THEN "GRANT" ELSE "DENY",
              evaluated |-> TRUE]

\* batch_test_authorization, after the dependency get_current_user has
\* returned user; tests is body.get("tests", [])
batch_test_authorization(user, tests, cache, t) ==
    IF tests = <<>>
    THEN [status |-> 400, cache |-> cache, results |-> <<>>]
    ELSE [status |-> 200, cache |-> cache,
          results |-> [i \in 1..Len(tests) |-> batch_result(user, tests[i])]]

NoStats == [max_size |-> 0, ttl_seconds |-> 0, current_entries |-> 0,
            available_space |-> 0, cache |-> <<>>]

\* the coroutines of the requests in flight
Coroutines == {"c1", "c2", "c3"}

\* a coroutine that has not started: no user yet, no call of enforce yet
NoTask ==
    [pc |-> "start", status |-> 0, user |-> NoUser, resource_path |-> NoneVal,
     action |-> NoneVal, value |-> FALSE, hit |-> FALSE, evaluated |-> FALSE, at |-> 0]

NoTasks == [c \in Coroutines |-> NoTask]

LastInit ==
    [op |-> "init", authorization |-> NoHeader, body |-> NoBody, status |-> 0,
     authenticated |-> FALSE, user |-> NoUser, verify |-> <<>>,
     resource_path |-> NoneVal, action |-> NoneVal, trace |-> <<>>,
     enforce |-> NoEnforce, prior |-> <<>>, evicted |-> <<>>, pdp |-> Ret(FALSE),
     stats |-> NoStats, cleared |-> 0, tests |-> <<>>, results |-> <<>>,
     t1 |-> 0, t2 |-> 0]

\* what get_current_user did: the key fetch, if one was made, and the verdict
VerifyTrace(authorization, a) ==
    (IF a.fetched THEN <<IF Truthy(a.cache) THEN "fetch_ok" ELSE "fetch_failed">> ELSE <<>>)
    \o (IF ~authorization.present THEN <<>>
        ELSE <<IF a.status = 200 THEN "verify_ok" ELSE "verify_failed">>)

\* the replies that make a difference: Keycloak is asked only on a cold key cache
RepliesFor(authorization) ==
    IF authorization.present /\ ~Truthy(public_key_cache)
    THEN KeycloakReplies ELSE {[reachable |-> FALSE, key |-> <<>>]}

\* the record of a request whose dependency get_current_user raised 401:
\* the handler never ran
Rejected(op, authorization, a) ==
    [LastInit EXCEPT !.op = op, !.authorization = authorization, !.status = 401,
                     !.verify = VerifyTrace(authorization, a), !.t1 = now, !.t2 = now]

\* the record of a request whose handler ran with the user get_current_user returned
Handled(op, authorization, a, body, r, dt) ==
    [LastInit EXCEPT !.op = op, !.authorization = authorization, !.body = body,
                     !.status = r.status, !.authenticated = TRUE, !.user = a.user,
                     !.verify = VerifyTrace(authorization, a),
                     !.resource_path = r.resource_path, !.action = r.action,
                     !.trace = r.trace, !.enforce = r.enforce,
                     !.prior = IF r.enforce.called
                               THEN Lookup(policy_cache,
                                           cache_key(a.user, r.resource_path, r.action))
                               ELSE <<>>,
                     !.evicted = Evicted(policy_cache, r.cache, now + dt),
                     !.t1 = now, !.t2 = now + dt]

\* the time that passes inside enforce, between its two reads of the clock
Delays == {0, 1}

\* one request: the dependency, then the handler.  dt is the time that passes
\* inside enforce; a request that does not reach enforce takes no time.
Request(op, authorization, a, body, r, dt) ==
    /\ now + dt <= MaxTime
    /\ IF a.status = 401 THEN body = NoBody /\ dt = 0 ELSE dt = 0 \/ r.enforce.called
    /\ public_key_cache' = a.cache
    /\ policy_cache' = IF a.status = 401 THEN policy_cache ELSE r.cache
    /\ now' = now + dt
    /\ last' = IF a.status = 401 THEN Rejected(op, authorization, a)
               ELSE Handled(op, authorization, a, body, r, dt)
    /\ UNCHANGED <<tasks, keycloak>>

\* POST /authorize
Authorize ==
    \E authorization \in Headers, body \in AuthorizeBodies, dt \in Delays :
      \E reply \in RepliesFor(authorization) :
        LET a == get_current_user(authorization, public_key_cache, reply)
            r == authorize(a.user, body, policy_cache, now, now + dt)
        IN  Request("authorize", authorization, a, body, r, dt)

\* POST /minio/presigned-url
PresignedUrl ==
    \E authorization \in Headers, body \in PresignBodies, dt \in Delays, minio_ok \in BOOLEAN :
      \E reply \in RepliesFor(authorization) :
        LET a == get_current_user(authorization, public_key_cache, reply)
            r == get_presigned_url(a.user, body, minio_ok, policy_cache, now, now + dt)
        IN  /\ minio_ok \/ (a.status = 200 /\ r.status = 500 /\ ~r.enforce.raised)
            /\ Request("presigned-url", authorization, a, body, r, dt)

\* the clock advances between requests
Tick ==
    /\ now < MaxTime
    /\ now' = now + 1
    /\ UNCHANGED <<policy_cache, public_key_cache, last, tasks, keycloak>>

Init ==
    /\ policy_cache = <<>>
    /\ public_key_cache = NoneVal
    /\ now = 0
    /\ last = LastInit
    /\ tasks = NoTasks
    /\ keycloak = "up"

Next == Authorize \/ PresignedUrl \/ Tick

\* the HTTP boundary: requests to /authorize and /minio/presigned-url over time
Spec == Init /\ [][Next]_vars

----------------------------------------------------------------------------
(* The PEP called directly, over time: PolicyEnforcementPoint.enforce and  *)
(* policy_cache.clear() applied to the shared cache.                       *)

U_reader == UserOf(T_user1_reader)
U_admin == UserOf(T_user1_admin)

\* one username before and after its roles changed: two tokens of user1
CacheUsers == {U_reader, U_admin}

\* (resource_path, action): four requests per username, the last two with ":"
\* in the action and in the path
CacheRequests ==
    {<<P_common, A_read>>, <<P_common, A_write>>,
     <<P_common, A_read_colon>>, <<P_common_colon, A_read>>}

EnforceCall(user, resource_path, action, dt) ==
    /\ now + dt <= MaxTime
    /\ LET e == enforce(user, resource_path, action, policy_cache, now, now + dt)
       IN  /\ policy_cache' = e.cache
           /\ last' = [LastInit EXCEPT !.op = "enforce", !.authenticated = TRUE,
                                       !.user = user, !.resource_path = resource_path,
                                       !.action = action, !.trace = EnforceTrace(e),
                                       !.enforce = EnforceOutcome(e),
                                       !.prior = Lookup(policy_cache,
                                                        cache_key(user, resource_path, action)),
                                       !.evicted = Evicted(policy_cache, e.cache, now + dt),
                                       !.t1 = now, !.t2 = now + dt]
    /\ now' = now + dt
    /\ UNCHANGED <<public_key_cache, tasks, keycloak>>

Enforce ==
    \E user \in CacheUsers, req \in CacheRequests, dt \in Delays :
        EnforceCall(user, req[1], req[2], dt)

\* POST /test/cache-clear, main.py:751-764
CacheClear ==
    \E user \in CacheUsers :
        LET r == clear_cache(user, policy_cache, now)
        IN  /\ policy_cache' = r.cache
            /\ last' = [LastInit EXCEPT !.op = "clear", !.authenticated = TRUE,
                                        !.user = user, !.status = r.status,
                                        !.cleared = r.cleared_entries,
                                        !.stats = [NoStats EXCEPT !.current_entries =
                                                                     r.current_entries],
                                        !.t1 = now, !.t2 = now]
            /\ UNCHANGED <<public_key_cache, now, tasks, keycloak>>

\* GET /test/cache-stats
CacheStats ==
    \E dt \in Delays :
        /\ now + dt <= MaxTime
        /\ LET r == get_cache_stats(policy_cache, now, now + dt)
           IN  /\ policy_cache' = r.cache
               /\ last' = [LastInit EXCEPT !.op = "cache-stats",
                                           !.stats = [r EXCEPT !.cache = policy_cache],
                                           !.t1 = now, !.t2 = now + dt]
        /\ now' = now + dt
        /\ UNCHANGED <<public_key_cache, tasks, keycloak>>

\* bodies of POST /test/simulate: a write, a read by default, no resource_path
SimulateBodies ==
    {AuthorizeBody(P_common, TRUE, A_write), AuthorizeBody(P_common, FALSE, NoneVal),
     AuthorizeBody(NoneVal, TRUE, A_read)}

\* POST /test/simulate
Simulate ==
    \E user \in CacheUsers, body \in SimulateBodies :
        LET r == simulate_authorization(user, body, policy_cache, now)
        IN  /\ policy_cache' = r.cache
            /\ last' = [LastInit EXCEPT !.op = "simulate", !.authenticated = TRUE,
                                        !.user = user, !.body = body,
                                        !.status = r.status,
                                        !.resource_path = r.resource_path,
                                        !.action = r.action, !.trace = r.trace,
                                        !.pdp = r.decision,
                                        !.t1 = now, !.t2 = now]
            /\ UNCHANGED <<public_key_cache, now, tasks, keycloak>>

\* the tests arrays of POST /test/batch
BatchTests ==
    {<<>>,
     <<AuthorizeBody(P_common, TRUE, A_write)>>,
     <<AuthorizeBody(P_common, FALSE, NoneVal), AuthorizeBody(P_common, TRUE, A_write)>>,
     <<AuthorizeBody(P_common, TRUE, A_write), AuthorizeBody(NoneVal, TRUE, A_read)>>}

\* POST /test/batch
Batch ==
    \E user \in CacheUsers, tests \in BatchTests :
        LET r == batch_test_authorization(user, tests, policy_cache, now)
        IN  /\ policy_cache' = r.cache
            /\ last' = [LastInit EXCEPT !.op = "batch", !.authenticated = TRUE,
                                        !.user = user, !.status = r.status,
                                        !.tests = tests, !.results = r.results,
                                        !.t1 = now, !.t2 = now]
            /\ UNCHANGED <<public_key_cache, now, tasks, keycloak>>

\* POST /authorize for the tuples the simulations ask about
SimulatedEnforce ==
    \E user \in CacheUsers, body \in SimulateBodies :
        /\ Truthy(body.resource_path)
        /\ EnforceCall(user, body.resource_path, ActionOf(body), 0)

NextSimulate == SimulatedEnforce \/ Simulate \/ Batch \/ Tick

SpecSimulate == Init /\ [][NextSimulate]_vars

NextCache == Enforce \/ CacheClear \/ CacheStats \/ Tick

\* tokens of further subjects: no preferred_username and no roles, and the
\* preferred_username of user1 under another subject
T_anon_none == Token(NoneVal, "list", {}, "sub-4")
T_user1_other == Token(S_user1, "list", {}, "sub-5")

\* several identities, two of them without username, two named user1
IdentityUsers ==
    {UserOf(T_anon_admin), UserOf(T_anon_none), U_admin, UserOf(T_user1_other)}

IdentityRequests == {<<P_common, A_write>>, <<P_common, A_read>>}

\* pep.enforce(user, resource_path, action) by any of the identities
IdentityEnforce ==
    \E user \in IdentityUsers, req \in IdentityRequests, dt \in Delays :
        EnforceCall(user, req[1], req[2], dt)

NextIdentity == IdentityEnforce \/ Tick

SpecIdentity == Init /\ [][NextIdentity]_vars

SpecCache == Init /\ [][NextCache]_vars

----------------------------------------------------------------------------
(* The PDP and the PEP as functions: every input of a bounded set, applied *)
(* once to a cold cache.                                                    *)

PdpUsernames == {S_user1, S_user2, S_commonuser, NoneVal}

PdpRoles == {"admin", "common-reader", "common-writer"}

\* users with a role list, and users whose roles claim is null
PdpUsers ==
    {[username |-> n, roles |-> r, rolesType |-> "list", sub |-> "sub"] :
        n \in PdpUsernames, r \in SUBSET PdpRoles}
    \cup {[username |-> n, roles |-> {}, rolesType |-> "null", sub |-> "sub"] :
        n \in PdpUsernames}

PdpPaths ==
    {P_common, P_common_rel, P_commonuser, P_user1, P_user2, P_user2_user1, P_user10,
     P_rel_user1, P_dslash_user1, P_data_common, P_None_None, <<"/">>}

PdpActions == {A_read, A_write, A_delete, A_list, NoneVal}

InitPDP ==
    /\ policy_cache = <<>>
    /\ public_key_cache = NoneVal
    /\ now = 0
    /\ tasks = NoTasks
    /\ keycloak = "up"
    /\ \E user \in PdpUsers, resource_path \in PdpPaths, action \in PdpActions :
         last = [LastInit EXCEPT !.op = "input", !.user = user,
                                 !.resource_path = resource_path, !.action = action]

\* pdp.evaluate(user, resource_path, action), on the cold cache or after the
\* call of enforce has filled it
PdpEvaluate ==
    /\ last.op \in {"input", "enforce"}
    /\ last' = [last EXCEPT !.op = "evaluate",
                            !.pdp = evaluate(last.user, last.resource_path, last.action)]
    /\ UNCHANGED <<policy_cache, public_key_cache, now, tasks, keycloak>>

\* pep.enforce(user, resource_path, action) on the cold cache: a miss
PdpEnforce ==
    /\ last.op = "input"
    /\ LET e == enforce(last.user, last.resource_path, last.action, policy_cache, now, now)
       IN  /\ policy_cache' = e.cache
           /\ last' = [last EXCEPT !.op = "enforce", !.trace = EnforceTrace(e),
                                   !.enforce = EnforceOutcome(e),
                                   !.prior = Lookup(policy_cache,
                                                    cache_key(last.user, last.resource_path,
                                                              last.action)),
                                   !.evicted = Evicted(policy_cache, e.cache, now)]
    /\ UNCHANGED <<public_key_cache, now, tasks, keycloak>>

\* pdp._determine_resource_type(resource_path, user['username'])
PdpClassify ==
    /\ last.op = "input"
    /\ last' = [last EXCEPT !.op = "classify",
                            !.pdp = determine_resource_type(last.resource_path,
                                                            last.user.username)]
    /\ UNCHANGED <<policy_cache, public_key_cache, now, tasks, keycloak>>

NextPDP == PdpEvaluate \/ PdpEnforce \/ PdpClassify

SpecPDP == InitPDP /\ [][NextPDP]_vars

----------------------------------------------------------------------------
(* The handler of /minio/presigned-url as a function: every request of a    *)
(* bounded set, applied to the cold cache and again to the cache it filled. *)

PresignUsers == {U_admin, U_reader, UserOf(T_user1_writer)}

PresignBuckets == {Tail(S_common), S_user1, S_user2, NoneVal}

PresignObjects == {<<"d">>, NoneVal}

PresignRequests ==
    {PresignBody(b, o, TRUE, a) :
        b \in PresignBuckets, o \in PresignObjects, a \in {A_read, A_write, A_delete, A_list}}
    \cup {PresignBody(b, o, FALSE, NoneVal) : b \in PresignBuckets, o \in PresignObjects}

InitPresign ==
    /\ policy_cache = <<>>
    /\ public_key_cache = NoneVal
    /\ now = 0
    /\ tasks = NoTasks
    /\ keycloak = "up"
    /\ \E user \in PresignUsers, body \in PresignRequests :
         last = [LastInit EXCEPT !.op = "input", !.authenticated = TRUE,
                                 !.user = user, !.body = body]

\* get_presigned_url(request, user) with the user and the body drawn
PresignCall ==
    \E minio_ok \in BOOLEAN :
        LET r == get_presigned_url(last.user, last.body, minio_ok, policy_cache, now, now)
        IN  /\ policy_cache' = r.cache
            /\ last' = [last EXCEPT !.op = "presigned-url", !.status = r.status,
                                    !.resource_path = r.resource_path,
                                    !.action = r.action, !.trace = r.trace,
                                    !.enforce = r.enforce,
                                    !.prior = Lookup(policy_cache,
                                                     cache_key(last.user, r.resource_path,
                                                               r.action)),
                                    !.evicted = Evicted(policy_cache, r.cache, now)]
            /\ UNCHANGED <<public_key_cache, now, tasks, keycloak>>

NextPresign == PresignCall

SpecPresign == InitPresign /\ [][NextPresign]_vars

----------------------------------------------------------------------------
(* Concurrent requests to /authorize.  The handlers are coroutines on one   *)
(* event loop: a coroutine runs until it awaits.  get_current_user and the  *)
(* synchronous get_keycloak_public_key under it run in one piece; the        *)
(* handler awaits request.json(), and enforce awaits pdp.evaluate.  With    *)
(* the present PolicyDecisionPoint that await never waits, which is the     *)
(* interleaving in which EnforceResume follows EnforceBegin at once.        *)

TaskTokens == {T_user1_reader, T_user1_admin}

TaskRequests == {<<P_common, A_read>>, <<P_common, A_write>>}

\* the dependency get_current_user of the request of coroutine c
TaskVerify(c) ==
    /\ tasks[c].pc = "start"
    /\ \E token \in TaskTokens :
         \E reply \in RepliesFor(Bearer(token)) :
           LET a == get_current_user(Bearer(token), public_key_cache, reply)
           IN  /\ public_key_cache' = a.cache
               /\ tasks' = [tasks EXCEPT ![c] =
                               IF a.status = 401
                               THEN [NoTask EXCEPT !.pc = "done", !.status = 401]
                               ELSE [NoTask EXCEPT !.pc = "await_json", !.user = a.user]]
    /\ UNCHANGED <<policy_cache, now, last, keycloak>>

\* authorize from `await request.json()` to the await inside enforce, or to
\* the response when the cache holds the key
EnforceBegin(c) ==
    /\ tasks[c].pc = "await_json"
    /\ \E req \in TaskRequests :
         LET b == enforce_begin(tasks[c].user, req[1], req[2], policy_cache, now, now)
         IN  /\ policy_cache' = b.cache
             /\ tasks' = [tasks EXCEPT ![c] =
                             [@ EXCEPT !.pc = IF b.suspended THEN "await_evaluate" ELSE "done",
                                       !.resource_path = req[1], !.action = req[2],
                                       !.hit = b.hit, !.value = b.value,
                                       !.status = IF b.suspended THEN 0
                                                  ELSE IF b.raised THEN 500
                                                  ELSE IF b.value THEN 200 ELSE 403]]
    /\ UNCHANGED <<public_key_cache, now, last, keycloak>>

\* enforce after `await pdp.evaluate(...)`, and the response of authorize
EnforceResume(c) ==
    /\ tasks[c].pc = "await_evaluate"
    /\ LET t == tasks[c]
           r == enforce_resume(t.user, t.resource_path, t.action, policy_cache, now)
       IN  /\ policy_cache' = r.cache
           /\ tasks' = [tasks EXCEPT ![c] =
                           [@ EXCEPT !.pc = "done", !.evaluated = TRUE, !.value = r.value,
                                     !.at = now,
                                     !.status = IF r.raised THEN 500
                                                ELSE IF r.value THEN 200 ELSE 403]]
    /\ UNCHANGED <<public_key_cache, now, last, keycloak>>

NextTasks ==
    \/ \E c \in Coroutines : TaskVerify(c)
    \/ \E c \in Coroutines : EnforceBegin(c)
    \/ \E c \in Coroutines : EnforceResume(c)
    \/ Tick

SpecTasks == Init /\ [][NextTasks]_vars

----------------------------------------------------------------------------
(* Token verification over time, with an identity provider that is down    *)
(* when the service starts, comes up and may go down again.  Clients keep   *)
(* sending requests with a valid token.                                     *)

\* keycloak_openid.public_key(): the realm's key, bare or in PEM form, while
\* Keycloak answers, and no answer while it does not
KeycloakAnswers ==
    IF keycloak = "up"
    THEN {[reachable |-> TRUE, key |-> <<"K1">>], [reachable |-> TRUE, key |-> Pem("K1")]}
    ELSE {[reachable |-> FALSE, key |-> <<>>]}

LiveHeaders == {NoHeader, Bearer(T_forged), Bearer(T_expired)}

\* get_current_user for one request; last.trace keeps what the verification
\* of the request before it did
Verification(authorization) ==
    \E reply \in KeycloakAnswers :
        LET a == get_current_user(authorization, public_key_cache, reply)
        IN  /\ public_key_cache' = a.cache
            /\ last' = [LastInit EXCEPT !.op = "verify",
                                        !.authorization = authorization,
                                        !.status = a.status,
                                        !.authenticated = (a.status = 200),
                                        !.user = a.user,
                                        !.verify = VerifyTrace(authorization, a),
                                        !.trace = last.verify,
                                        !.t1 = now, !.t2 = now]
            /\ UNCHANGED <<policy_cache, now, tasks, keycloak>>

\* a request with a validly signed, unexpired token
ValidRequest == Verification(Bearer(T_user1_admin))

\* a request without a token or with one that does not verify
OtherRequest == \E authorization \in LiveHeaders : Verification(authorization)

KeycloakDown ==
    /\ keycloak = "up"
    /\ keycloak' = "down"
    /\ UNCHANGED <<policy_cache, public_key_cache, now, last, tasks>>

KeycloakUp ==
    /\ keycloak = "down"
    /\ keycloak' = "up"
    /\ UNCHANGED <<policy_cache, public_key_cache, now, last, tasks>>

InitLive ==
    /\ policy_cache = <<>>
    /\ public_key_cache = NoneVal
    /\ now = 0
    /\ last = LastInit
    /\ tasks = NoTasks
    /\ keycloak = "down"

NextLive == ValidRequest \/ OtherRequest \/ KeycloakDown \/ KeycloakUp \/ Tick

\* the server answers every request it is sent, and valid requests keep coming
SpecLive == InitLive /\ [][NextLive]_vars /\ WF_vars(ValidRequest)

----------------------------------------------------------------------------
(* Properties *)

Range(f) == {f[i] : i \in DOMAIN f}

NoSegment == <<"<no segment>">>

\* the first non-empty component of a slash-delimited path
FirstNonEmptySegment(path) ==
    LET parts == SelectSeq(Split(path, "/"), LAMBDA p : p # <<>>)
    IN  IF parts = <<>> THEN NoSegment ELSE parts[1]

CommonPrefixed(path) == StartsWith(path, S_common) \/ StartsWith(path, S_common_rel)

\* a user with a role list that does not hold, respectively holds, admin
NonAdmin(user) == user.rolesType = "list" /\ "admin" \notin user.roles
IsAdmin(user) == user.rolesType = "list" /\ "admin" \in user.roles

\* the entry now cached under the key of the last call of enforce
LastEntry == Lookup(policy_cache, cache_key(last.user, last.resource_path, last.action))

\* C1: on a cache miss enforce, and evaluate under it, grant every path and
\* every action to every identity whose role set contains admin, whatever its
\* other fields, a missing username included.
C1_AdminAlwaysGranted ==
    /\ (last.op = "evaluate" /\ IsAdmin(last.user))
         => (~last.pdp.raised /\ last.pdp.value = TRUE)
    /\ (last.op = "enforce" /\ IsAdmin(last.user) /\ ~last.enforce.hit)
         => (~last.enforce.raised /\ last.enforce.value = TRUE)

C3_OwnerRule ==
    (last.op = "evaluate" /\ NonAdmin(last.user) /\ ~CommonPrefixed(last.resource_path))
      => /\ ~last.pdp.raised
         /\ last.pdp.value = (FirstNonEmptySegment(last.resource_path) = last.user.username)

\* user1 asks for /user2/user1/x, which holds its name in the second segment,
\* and is denied
C3_Witness ==
    /\ last.op = "evaluate"
    /\ last.user.username = S_user1
    /\ NonAdmin(last.user)
    /\ last.resource_path = P_user2_user1
    /\ last.action = A_list
    /\ last.pdp.value = FALSE

\* a token that is missing, malformed, wrongly signed or expired
TokenBad(authorization) ==
    \/ ~authorization.present
    \/ ~authorization.token.wellformed
    \/ authorization.token.signedBy = "forged"
    \/ authorization.token.expired

\* C4: a request to /authorize whose token is missing, malformed, wrongly
\* signed or expired is answered 401 and calls neither enforce nor evaluate:
\* the decision cache is the same after the request as before it.
C4_BadToken401 ==
    [][(last'.op = "authorize" /\ TokenBad(last'.authorization))
         => /\ last'.status = 401
            /\ ~last'.enforce.called
            /\ last'.trace = <<>>
            /\ policy_cache' = policy_cache]_vars

\* an expired token is refused while the key is cached and the decision cache
\* holds an entry
C4_Witness ==
    /\ last.op = "authorize"
    /\ last.authorization = Bearer(T_expired)
    /\ last.status = 401
    /\ Truthy(public_key_cache)
    /\ policy_cache # <<>>

StorageSteps == {"minio_client", "presigned_get_object", "presigned_put_object"}

\* C5: /minio/presigned-url calls the storage client only after the token was
\* verified and enforce has granted "/{bucket}/{object_path}" with the
\* request's action, in that order; when enforce denies, the answer is 403
\* and the storage client is never called.
C5_MintAfterGrant ==
    last.op = "presigned-url" =>
      /\ (Range(last.trace) \cap StorageSteps # {})
           => /\ last.authenticated
              /\ last.verify # <<>> /\ last.verify[Len(last.verify)] = "verify_ok"
              /\ last.enforce.called /\ ~last.enforce.raised /\ last.enforce.value
              /\ last.resource_path = <<"/">> \o Format(last.body.bucket) \o <<"/">>
                                        \o Format(last.body.object_path)
              /\ last.action = ActionOf(last.body)
              /\ \A i, j \in DOMAIN last.trace :
                   (last.trace[i] \in {"enforce", "evaluate"} /\ last.trace[j] \in StorageSteps)
                     => i < j
      /\ (last.enforce.called /\ ~last.enforce.raised /\ ~last.enforce.value)
           => (last.status = 403 /\ Range(last.trace) \cap StorageSteps = {})

\* a PUT URL is minted on a grant that enforce served from its cache
C5_Witness ==
    /\ last.op = "presigned-url"
    /\ last.status = 200
    /\ last.enforce.hit
    /\ last.trace = <<"enforce", "minio_client", "presigned_put_object">>

\* C6: when the public key was never fetched and Keycloak cannot be reached
\* or sends an empty key, verification fails with 401 for every token, the
\* request does not reach enforce and nothing is granted.
C6_KeyUnavailable401 ==
    ("fetch_failed" \in Range(last.verify))
      => /\ last.status = 401
         /\ ~last.authenticated
         /\ ~last.enforce.called
         /\ last.trace = <<>>

\* a validly signed admin token is refused because the key could not be fetched
C6_Witness ==
    /\ last.op = "authorize"
    /\ last.authorization = Bearer(T_user1_admin)
    /\ "fetch_failed" \in Range(last.verify)
    /\ last.status = 401
    /\ ~Truthy(public_key_cache)

\* C7: evaluate never raises: on every input, a missing username and a roles
\* value that is no collection included, it returns a boolean, and a fault
\* inside classification or rule evaluation yields deny.
C7_NeverRaises ==
    last.op = "evaluate"
      => /\ ~last.pdp.raised
         /\ last.pdp.value \in BOOLEAN
         /\ evaluate_try(last.user, last.resource_path, last.action).raised
              => last.pdp.value = FALSE

\* the roles claim is null, so the admin test faults, and the answer is deny
C7_Witness ==
    /\ last.op = "evaluate"
    /\ last.user.rolesType = "null"
    /\ last.user.username = S_user1
    /\ last.resource_path = P_user1
    /\ evaluate_try(last.user, last.resource_path, last.action).raised
    /\ last.pdp = Ret(FALSE)

\* the entry of the cache, before a step, is gone after it
Removed(e) == \A i \in DOMAIN policy_cache' : policy_cache'[i].key # e.key

\* C8: when enforce is called with the (identity, path, action) of an
\* earlier call, before the entry of that call has reached its TTL and with
\* no clear and no eviction of the entry in between, the call is a cache hit:
\* it returns the decision of the earlier call without calling evaluate.  The
\* entry a miss inserts holds the decision the miss returned, and an entry
\* leaves the cache only by a clear, by an eviction at capacity or by expiry.
C8_Idempotent ==
    /\ [](last.op = "enforce"
            => /\ (last.prior # <<>> /\ last.t2 < last.prior[1].at + CacheTtl)
                    => /\ last.enforce.hit
                       /\ ~last.enforce.raised
                       /\ ~last.enforce.evaluated
                       /\ last.enforce.value = last.prior[1].value
               /\ (~last.enforce.hit /\ ~last.enforce.raised)
                    => /\ Len(LastEntry) = 1
                       /\ LastEntry[1].value = last.enforce.value
                       /\ LastEntry[1].by = last.user
                       /\ LastEntry[1].at = last.t2)
    /\ [][\A e \in Range(policy_cache) :
            Removed(e) => \/ last'.op = "clear"
                          \/ ~(now' < e.at + CacheTtl)
                          \/ /\ last'.op = "enforce" /\ ~last'.enforce.hit
                             /\ Len(policy_cache') = CacheMaxSize]_vars

\* the same user asks again within the TTL and is served the cached decision
C8_Witness ==
    /\ last.op = "enforce"
    /\ last.enforce.hit
    /\ ~last.enforce.raised
    /\ last.prior # <<>>
    /\ last.prior[1].by = last.user
    /\ last.t2 > last.prior[1].at
    /\ last.t2 < last.prior[1].at + CacheTtl

\* C9: a decision inserted at time t is not returned from the cache at any
\* time >= t + TTL, whether or not the entry is still physically there and
\* however often it was hit (a hit does not move the expiry); a call of
\* enforce that starts after the expiry evaluates through the PDP.
C9_Expiry ==
    last.op = "enforce" =>
      /\ (last.enforce.hit /\ ~last.enforce.raised)
           => /\ last.prior # <<>>
              /\ last.t2 < last.prior[1].at + CacheTtl
              /\ last.enforce.value = last.prior[1].value
              /\ Len(LastEntry) = 1
              /\ LastEntry[1].at = last.prior[1].at
              /\ LastEntry[1].expires = last.prior[1].expires
      /\ (last.prior # <<>> /\ last.t1 >= last.prior[1].at + CacheTtl)
           => /\ ~last.enforce.hit
              /\ last.enforce.evaluated
              /\ last.enforce.value
                   = evaluate(last.user, last.resource_path, last.action).value

\* the expired entry was still in the cache when enforce was called, and the
\* call evaluated afresh
C9_Witness ==
    /\ last.op = "enforce"
    /\ last.prior # <<>>
    /\ last.t1 >= last.prior[1].at + CacheTtl
    /\ last.enforce.evaluated
    /\ ~last.enforce.hit

ColonFree(x) == \A i \in DOMAIN Format(x) : Format(x)[i] # ":"

C11_StaleServed ==
    (last.op = "enforce" /\ last.prior # <<>> /\ last.t2 < last.prior[1].at + CacheTtl)
      => /\ ~last.enforce.raised
         /\ last.enforce.value = last.prior[1].value
         /\ last.enforce.value
              = evaluate(last.prior[1].by, last.prior[1].req[1], last.prior[1].req[2]).value

\* a deny computed for the reader is served to the admin of the same username
C11_Witness ==
    /\ last.op = "enforce"
    /\ last.prior # <<>>
    /\ last.prior[1].by = U_reader
    /\ last.user = U_admin
    /\ last.prior[1].req = <<last.resource_path, last.action>>
    /\ last.t2 < last.prior[1].at + CacheTtl
    /\ last.enforce.value = FALSE
    /\ evaluate(last.user, last.resource_path, last.action).value = TRUE

\* the keys of the entries of a cache
Keys(cache) == {cache[i].key : i \in DOMAIN cache}

\* C12: the entries of the cache are ordered by their last use, where an
\* insertion and a cache hit in enforce both count as a use; when the cache
\* holds its maximum number of unexpired entries and enforce inserts a
\* decision for a new key, exactly one entry is evicted, the least recently
\* used one, and all other entries are kept.
C12_EvictsLeastRecentlyUsed ==
    [][(last' # last /\ last'.op = "enforce" /\ ~last'.enforce.raised)
         => LET key == cache_key(last'.user, last'.resource_path, last'.action)
                live == Expire(policy_cache, last'.t2)
            IN  /\ policy_cache' # <<>>
                /\ policy_cache'[Len(policy_cache')].key = key
                /\ last'.enforce.hit
                     => /\ Without(policy_cache', key) = Without(policy_cache, key)
                        /\ last'.evicted = <<>>
                /\ (~last'.enforce.hit /\ last'.prior = <<>> /\ Len(live) = CacheMaxSize)
                     => /\ last'.evicted = <<live[1]>>
                        /\ Keys(policy_cache') = (Keys(live) \ {live[1].key}) \cup {key}
                        /\ \A i \in 2..Len(live) : policy_cache'[i - 1] = live[i]
                /\ (~last'.enforce.hit /\ Len(live) < CacheMaxSize)
                     => last'.evicted = <<>>]_vars

\* the full cache evicts the entry that was inserted last but not hit since,
\* and keeps the older entry that a hit made the most recently used
C12_Witness ==
    /\ last.op = "enforce"
    /\ ~last.enforce.hit
    /\ last.prior = <<>>
    /\ Len(last.evicted) = 1
    /\ Len(policy_cache) = CacheMaxSize
    /\ \E i \in DOMAIN policy_cache :
         /\ policy_cache[i].at < last.evicted[1].at
         /\ policy_cache[i].expires > last.t2

\* C13: in every state the decision cache holds between 0 and the configured
\* maximum of entries, no entry outlives its TTL in what the cache counts, and
\* /test/cache-stats reports current_entries + available_space = max_size,
\* where current_entries counts the unexpired entries only.
C13_BoundedAndStatsAddUp ==
    /\ Len(policy_cache) \in 0..CacheMaxSize
    /\ CacheLen(policy_cache, now) \in 0..CacheMaxSize
    /\ last.op = "cache-stats"
         => /\ last.stats.max_size = CacheMaxSize
            /\ last.stats.current_entries
                 = Cardinality({i \in DOMAIN last.stats.cache :
                                    last.t1 < last.stats.cache[i].at + CacheTtl})
            /\ last.stats.current_entries + last.stats.available_space
                 = last.stats.max_size

\* a header of the form "Bearer <token>" whose token is a well-formed JWT,
\* signed by the realm key the verifier holds, and not expired
WellFormedBearer(authorization, key) ==
    /\ authorization.present
    /\ authorization.scheme = "Bearer "
    /\ authorization.token.wellformed
    /\ Len(key) = 3 /\ authorization.token.signedBy = KeyMaterial(key)
    /\ ~authorization.token.expired

\* C14: verification fails with 401 when the Authorization header is absent,
\* is not of the form "Bearer <token>" (a bare, otherwise valid token without
\* the Bearer scheme included), carries an invalid or unverifiable signature,
\* or an expired token; an identity is produced only for a well-formed bearer
\* header that carries a validly signed, unexpired token.
C14_OnlyBearerAuthenticates ==
    last.op \in {"authorize", "presigned-url"}
      => /\ ~WellFormedBearer(last.authorization, public_key_cache)
              => (last.status = 401 /\ ~last.authenticated)
         /\ last.authenticated
              => WellFormedBearer(last.authorization, public_key_cache)

\* C15: an authenticated request to /authorize with a non-empty resource_path
\* is answered 200 iff enforce returns grant and 403 iff it returns deny; a
\* fault raised while the request is handled (a body that cannot be parsed, a
\* fault inside enforce) is answered 500 and never 200.
C15_AuthorizeStatus ==
    (last.op = "authorize" /\ last.authenticated)
      => /\ (last.body.json_ok /\ Truthy(last.body.resource_path))
              => /\ last.enforce.called
                 /\ last.resource_path = last.body.resource_path
                 /\ last.status = 200 <=> (~last.enforce.raised /\ last.enforce.value)
                 /\ last.status = 403 <=> (~last.enforce.raised /\ ~last.enforce.value)
         /\ (~last.body.json_ok \/ last.enforce.raised) => last.status = 500
         /\ last.status = 500 => (~last.body.json_ok \/ last.enforce.raised)

\* the cached entry expired between the membership test and the read: the
\* fault inside enforce is answered 500
C15_Witness ==
    /\ last.op = "authorize"
    /\ last.authenticated
    /\ Truthy(last.body.resource_path)
    /\ last.enforce.called
    /\ last.enforce.raised
    /\ last.status = 500

\* the body with its action spelled out as "read"
WithActionRead(body) == [body EXCEPT !.has_action = TRUE, !.action = A_read]

\* C16: an authenticated request to /authorize whose body has no resource_path
\* or an empty one is answered 400 without a call of enforce, so the decision
\* cache is unchanged; a request that omits action is handled exactly as the
\* same request with action "read": same status, same decision, same cache.
C16_BadRequestAndDefaultAction ==
    [][(last' # last /\ last'.op = "authorize" /\ last'.authenticated /\ last'.body.json_ok)
         => /\ ~Truthy(last'.body.resource_path)
                 => /\ last'.status = 400
                    /\ ~last'.enforce.called
                    /\ last'.trace = <<>>
                    /\ policy_cache' = policy_cache
            /\ ~last'.body.has_action
                 => LET r == authorize(last'.user, WithActionRead(last'.body),
                                       policy_cache, last'.t1, last'.t2)
                    IN  /\ last'.status = r.status
                        /\ last'.enforce = r.enforce
                        /\ last'.action = A_read
                        /\ policy_cache' = r.cache]_vars

\* a body without resource_path is refused with 400 while the cache holds
\* decisions
C16_Witness ==
    /\ last.op = "authorize"
    /\ last.authenticated
    /\ last.body.json_ok
    /\ last.body.resource_path = NoneVal
    /\ ~last.body.has_action
    /\ last.status = 400
    /\ policy_cache # <<>>

\* C17: the decision cache is never a source of errors: however enforce is
\* interleaved with the passage of time, with clears of the cache and with
\* other calls of enforce, a lookup ends in a hit that returns the stored
\* decision or in a miss that goes on to evaluate; enforce never raises
\* because the entry expired or was removed between its membership test and
\* its read.
C17_CacheNeverRaises ==
    last.op = "enforce"
      => /\ ~last.enforce.raised
         /\ last.enforce.hit
              => (last.prior # <<>> /\ last.enforce.value = last.prior[1].value)
         /\ ~last.enforce.hit => last.enforce.evaluated

\* C18: the cache key is injective on (username, resource_path, action), a
\* username or a path that contains ":" included: two different tuples never
\* share a key, so the entry enforce finds or leaves under the key of its
\* tuple was cached for that very tuple, and enforce never returns for one
\* tuple a decision that was cached for another.
C18_KeyInjective ==
    (last.op = "enforce" /\ ~last.enforce.raised)
      => \A e \in Range(policy_cache) \cup Range(last.prior) :
           e.key = cache_key(last.user, last.resource_path, last.action)
             => /\ e.by.username = last.user.username
                /\ e.req = <<last.resource_path, last.action>>

\* the steps of get_current_user that ask Keycloak for the key
FetchSteps == {"fetch_ok", "fetch_failed"}

\* C19: the cached public key is write-once: after the first successful fetch
\* its value never changes and Keycloak is never asked for the key again,
\* whatever requests follow, those whose token fails verification against the
\* cached key included.
C19_PublicKeyWriteOnce ==
    [][/\ Truthy(public_key_cache)
            => /\ public_key_cache' = public_key_cache
               /\ last' # last => Range(last'.verify) \cap FetchSteps = {}
       /\ (~Truthy(public_key_cache) /\ Truthy(public_key_cache'))
            => "fetch_ok" \in Range(last'.verify)]_vars

\* with the key cached, a token that fails verification against it is refused
\* without a fetch
C19_Witness ==
    /\ Truthy(public_key_cache)
    /\ last.op = "authorize"
    /\ last.authorization = Bearer(T_forged)
    /\ last.verify = <<"verify_failed">>
    /\ last.status = 401

\* C20: a validly signed, unexpired token without a realm_access claim, or
\* with a realm_access that has no roles, is authenticated with an empty role
\* set, and the PDP treats the identity as a non-admin without a common role:
\* it denies every common path and every path that is not the user's own.
C20_NoRolesClaim ==
    (last.op \in {"authorize", "presigned-url"}
       /\ last.authorization.token.realm_access \in {"absent", "noroles"}
       /\ WellFormedBearer(last.authorization, public_key_cache))
      => /\ last.authenticated
         /\ last.status # 401
         /\ last.user.username = last.authorization.token.preferred_username
         /\ last.user.rolesType = "list"
         /\ last.user.roles = {}
         /\ last.enforce.evaluated
              => /\ ~last.enforce.raised
                 /\ last.enforce.value
                      <=> (/\ ~CommonPrefixed(last.resource_path)
                           /\ FirstNonEmptySegment(last.resource_path)
                                = last.user.username)

\* a token without realm_access is authenticated and the PDP denies it the
\* write to the common area
C20_Witness ==
    /\ last.op = "authorize"
    /\ last.authorization = Bearer(T_user1_noaccess)
    /\ last.authenticated
    /\ last.user.roles = {}
    /\ last.resource_path = P_common
    /\ last.enforce.evaluated
    /\ last.status = 403

\* C24: a path that is not common-prefixed is classified user_private iff its
\* first non-empty segment is exactly the username, and unknown otherwise, so
\* that every non-admin request on a path classified user_private is granted
\* and a path that holds the username only as a substring is unknown.
C24_ClassifiedByFirstSegment ==
    /\ (last.op = "classify" /\ IsStr(last.user.username)
          /\ ~CommonPrefixed(last.resource_path))
         => /\ ~last.pdp.raised
            /\ last.pdp.value
                 = IF FirstNonEmptySegment(last.resource_path) = last.user.username
                   THEN "user_private" ELSE "unknown"
    /\ (last.op = "evaluate" /\ NonAdmin(last.user) /\ IsStr(last.user.username)
          /\ determine_resource_type(last.resource_path, last.user.username)
               = Ret("user_private"))
         => last.pdp.value = TRUE

\* C24 as amended: a path that is not common-prefixed is classified
\* user_private iff the username occurs anywhere in it, and unknown otherwise;
\* a non-admin request on a path classified user_private is granted iff the
\* first non-empty segment of the path is exactly the username, and a
\* request on a path classified unknown is denied.
C24_ClassifiedBySubstring ==
    /\ (last.op = "classify" /\ IsStr(last.user.username)
          /\ ~CommonPrefixed(last.resource_path))
         => /\ ~last.pdp.raised
            /\ last.pdp.value
                 = IF Contains(last.resource_path, last.user.username)
                   THEN "user_private" ELSE "unknown"
    /\ (last.op = "evaluate" /\ NonAdmin(last.user) /\ IsStr(last.user.username)
          /\ ~CommonPrefixed(last.resource_path))
         => /\ last.pdp.value
                 <=> FirstNonEmptySegment(last.resource_path) = last.user.username
            /\ last.pdp.value => Contains(last.resource_path, last.user.username)

\* /user2/user1/x is classified user_private for user1
C24_Witness ==
    /\ last.op = "classify"
    /\ last.user.username = S_user1
    /\ last.resource_path = P_user2_user1
    /\ last.pdp = Ret("user_private")

\* the path segment "common"
CommonSegment == Tail(S_common)

\* C27: for an identity without the admin role, a grant from evaluate implies
\* that the first non-empty segment of the path is exactly "common" or
\* exactly the username: a common role gives no access to a path whose first
\* segment is another user's name, names that begin with "common" included.
C27_GrantOnlyCommonOrOwn ==
    (last.op = "evaluate" /\ NonAdmin(last.user) /\ last.pdp.value = TRUE)
      => FirstNonEmptySegment(last.resource_path)
           \in {CommonSegment, last.user.username}

\* token subjects
Subjects == {"sub", "sub-0", "sub-1"}

\* C25: evaluate is pure and deterministic: its result depends only on
\* (username, roles, resource_path, action), so identities that differ only
\* in the subject get the same decision for the same path and action, with
\* the decision cache empty or filled, and a call of evaluate changes neither
\* the decision cache nor the public key cache.
C25_EvaluatePure ==
    [][(last'.op = "evaluate" /\ last.op # "evaluate")
         => /\ policy_cache' = policy_cache
            /\ public_key_cache' = public_key_cache
            /\ \A s \in Subjects :
                 last'.pdp = evaluate([last'.user EXCEPT !.sub = s],
                                      last'.resource_path, last'.action)
            /\ last.op = "enforce" /\ ~last.enforce.raised
                 => last'.pdp.value = last.enforce.value]_vars

\* evaluate is called with the decision of the same request in the cache
C25_Witness ==
    /\ last.op = "evaluate"
    /\ policy_cache # <<>>
    /\ last.user.username = S_user1
    /\ last.resource_path = P_user1
    /\ last.pdp = Ret(TRUE)

PresignSteps == {"presigned_get_object", "presigned_put_object"}

\* enforce granted the last request
Granted == last.enforce.called /\ ~last.enforce.raised /\ last.enforce.value

\* C28: /minio/presigned-url mints a GET URL only for action "read" and a PUT
\* URL only for action "write"; for any other action it answers 400 and mints
\* no URL even when enforce granted the request, and a fault of the storage
\* backend after a grant is answered 500 with no URL returned.
C28_MintByAction ==
    last.op = "presigned-url"
      => /\ "presigned_get_object" \in Range(last.trace) => last.action = A_read
         /\ "presigned_put_object" \in Range(last.trace) => last.action = A_write
         /\ last.status = 200
              => /\ Granted
                 /\ Range(last.trace) \cap PresignSteps # {}
                 /\ "storage_fault" \notin Range(last.trace)
         /\ (Granted /\ last.action \notin {A_read, A_write})
              => (last.status = 400 /\ Range(last.trace) \cap PresignSteps = {})
         /\ (Granted /\ "storage_fault" \in Range(last.trace)) => last.status = 500
         /\ (Granted /\ last.action \in {A_read, A_write}
               /\ "storage_fault" \notin Range(last.trace)) => last.status = 200

\* the writer is granted delete on the common area and gets 400, no URL
C28_Witness ==
    /\ last.op = "presigned-url"
    /\ last.user = UserOf(T_user1_writer)
    /\ last.action = A_delete
    /\ Granted
    /\ last.status = 400
    /\ last.trace = <<"enforce", "evaluate", "minio_client">>

\* the entries of the cache that have not expired at time t
Live(cache, t) == {i \in DOMAIN cache : t < cache[i].expires}

\* C23: POST /test/cache-clear by an identity with the admin role empties the
\* decision cache and reports cleared_entries = the number of entries the
\* cache held just before and current_entries = 0, and the next enforce for
\* any key evaluates again; by an identity without the admin role it is
\* answered 403 and the cache stays as it was.
C23_ClearByAdminOnly ==
    /\ [][(last'.op = "clear" /\ last' # last)
            => IF "admin" \in last'.user.roles
               THEN /\ last'.status = 200
                    /\ policy_cache' = <<>>
                    /\ last'.cleared = Cardinality(Live(policy_cache, now))
                    /\ last'.stats.current_entries = 0
               ELSE /\ last'.status = 403
                    /\ policy_cache' = policy_cache]_vars
    /\ [][(last.op = "clear" /\ last.status = 200 /\ last'.op = "enforce")
            => /\ last'.enforce.evaluated
               /\ ~last'.enforce.hit]_vars

\* the admin has cleared a cache that held two entries
C23_Witness ==
    /\ last.op = "clear"
    /\ IsAdmin(last.user)
    /\ last.status = 200
    /\ last.cleared = 2
    /\ policy_cache = <<>>

\* the unexpired entry the cache holds for a tuple of the user of the last request
CachedFor(resource_path, action) ==
    SelectSeq(Lookup(policy_cache, cache_key(last.user, resource_path, action)),
              LAMBDA e : now < e.expires)

\* C29: POST /test/simulate and POST /test/batch leave the decision cache as
\* it was and never go through enforce: the decision they report is what
\* evaluate returns for the roles of the current token, whatever decision the
\* cache holds for the same tuple.
C29_SimulateBypassesCache ==
    /\ [][last'.op \in {"simulate", "batch"}
            => /\ policy_cache' = policy_cache
               /\ "enforce" \notin Range(last'.trace)]_vars
    /\ [](last.op = "simulate" /\ last.status = 200
            => /\ "evaluate" \in Range(last.trace)
               /\ last.pdp = evaluate(last.user, last.resource_path, last.action))
    /\ [](last.op = "batch" /\ last.status = 200
            => /\ Len(last.results) = Len(last.tests)
               /\ \A i \in DOMAIN last.results :
                    Truthy(last.tests[i].resource_path)
                      => last.results[i].decision
                           = IF evaluate(last.user, last.tests[i].resource_path,
                                         ActionOf(last.tests[i])).value
                             THEN "GRANT" ELSE "DENY")

\* the admin token is told GRANT while the cache holds the DENY that the
\* reader token of the same username left for the same tuple
C29_Witness ==
    /\ last.op = "simulate"
    /\ last.status = 200
    /\ IsAdmin(last.user)
    /\ last.pdp.value
    /\ CachedFor(last.resource_path, last.action) # <<>>
    /\ ~CachedFor(last.resource_path, last.action)[1].value

\* C26: enforce never returns to one identity a grant that was computed for
\* another token subject: identities whose tokens carry the same or no
\* preferred_username do not share cached decisions.
C26_NoGrantAcrossSubjects ==
    (/\ last.op = "enforce"
     /\ last.enforce.hit
     /\ ~last.enforce.raised
     /\ last.enforce.value
     /\ last.prior # <<>>)
      => last.prior[1].by.sub = last.user.sub

\* coroutine c has asked enforce, and with which key
Asked(c) == tasks[c].pc \in {"await_evaluate", "done"} /\ tasks[c].status # 401
KeyOf(c) == cache_key(tasks[c].user, tasks[c].resource_path, tasks[c].action)

\* coroutine c has returned from an enforce that missed and evaluated
Missed(c) == tasks[c].pc = "done" /\ tasks[c].evaluated

\* C21: when two calls of enforce for the same (identity, path, action) both
\* miss the cache, both call evaluate and both return the same decision, and
\* when both have returned the cache holds exactly one entry for the key,
\* with that decision (until it expires, and as long as no call by another
\* identity writes the same key).
C21_StampedeTolerated ==
    /\ \A c \in Coroutines :
         Asked(c) => Len(Lookup(policy_cache, KeyOf(c))) <= 1
    /\ \A c, d \in Coroutines :
         (/\ c # d
          /\ Missed(c) /\ Missed(d)
          /\ tasks[c].user = tasks[d].user
          /\ KeyOf(c) = KeyOf(d)
          /\ \A e \in Coroutines :
               (Asked(e) /\ KeyOf(e) = KeyOf(c)) => tasks[e].user = tasks[c].user)
           => /\ tasks[c].value = tasks[d].value
              /\ tasks[c].value = evaluate(tasks[c].user, tasks[c].resource_path,
                                           tasks[c].action).value
              /\ (now < tasks[c].at + CacheTtl \/ now < tasks[d].at + CacheTtl)
                   => /\ Len(Lookup(policy_cache, KeyOf(c))) = 1
                      /\ Lookup(policy_cache, KeyOf(c))[1].value = tasks[c].value

\* both coroutines missed at time 0, before either had inserted, and both
\* have returned
C21_Witness ==
    /\ now = 0
    /\ \A c \in Coroutines : Missed(c) /\ tasks[c].status = 200
    /\ \A c \in Coroutines : tasks[c].user = tasks["c1"].user /\ KeyOf(c) = KeyOf("c1")
    /\ Len(policy_cache) = 1

\* the keys of the coroutines that have asked enforce
AskedKeys == {KeyOf(c) : c \in {d \in Coroutines : Asked(d)}}

\* the keys Keycloak can have answered, in the form the verifier stores
StoredKeys == {Pem(r.key[1]) : r \in {q \in KeycloakReplies : q.key # <<>>}}

\* C22: under any interleaving of calls of enforce on distinct keys, with the
\* cache below capacity and within the TTL, no insertion is lost: every key
\* whose call has returned is in the cache with the decision that call
\* returned; and the public key cache holds nothing or a whole key.
C22_NoLostInsert ==
    /\ \A c \in Coroutines :
         (/\ Missed(c)
          /\ \A d \in Coroutines \ {c} : Asked(d) => KeyOf(d) # KeyOf(c)
          /\ Cardinality(AskedKeys) <= CacheMaxSize
          /\ now < tasks[c].at + CacheTtl)
           => /\ Len(Lookup(policy_cache, KeyOf(c))) = 1
              /\ Lookup(policy_cache, KeyOf(c))[1].value = tasks[c].value
    /\ public_key_cache = NoneVal \/ public_key_cache \in StoredKeys

\* two calls on two keys were both suspended at the await, both have returned
\* and both keys are cached under the key fetched on first use
C22_Witness ==
    /\ now = 0
    /\ \A c \in Coroutines : Missed(c)
    /\ KeyOf("c1") # KeyOf("c2")
    /\ Len(policy_cache) = 2
    /\ public_key_cache = Pem("K1")

\* the last request carried a valid token and was authenticated
Authenticated ==
    /\ last.op = "verify"
    /\ last.authorization = Bearer(T_user1_admin)
    /\ last.status = 200
    /\ last.authenticated

\* C30: a failed fetch of the public key is not remembered: it leaves the
\* public key cache unset and every later verification asks Keycloak again;
\* if Keycloak is reachable from some time on, requests with a valid token
\* are authenticated again and again from then on, with the key cached.
C30_FetchRetried ==
    /\ [][(last' # last /\ "fetch_failed" \in Range(last'.verify))
            => /\ public_key_cache = NoneVal
               /\ public_key_cache' = NoneVal]_vars
    /\ [][(last' # last /\ last'.authorization.present /\ ~Truthy(public_key_cache))
            => Range(last'.verify) \cap FetchSteps # {}]_vars
    /\ [](Authenticated => Truthy(public_key_cache))
    /\ (<>[](keycloak = "up")) => []<>(Authenticated /\ Truthy(public_key_cache))

\* a request whose fetch failed is followed by one that fetches the key, is
\* authenticated and leaves the key cached
C30_Witness ==
    /\ Authenticated
    /\ "fetch_failed" \in Range(last.trace)
    /\ last.verify = <<"fetch_ok", "verify_ok">>
    /\ public_key_cache = Pem("K1")

====
